---- MODULE Spec2Model ----
(***************************************************************************)
(* Model of web/dashboard.py of gommuter: the commute-time dashboard.      *)
(*                                                                         *)
(* Representation of the Python values:                                    *)
(*   str        a sequence of one-character strings, compared by code      *)
(*              point (Ord) exactly as Python compares str                 *)
(*   int        a TLA+ integer                                             *)
(*   float      an exact fraction [num, den] in lowest terms; NaN is 0/0   *)
(*   DataFrame  a sequence of row records carrying their index label       *)
(*   Series     a sequence of [index, value] records                       *)
(***************************************************************************)
EXTENDS Integers, Sequences, FiniteSets, TLC

\* ------------------------------------------------------------------ bounds
\* lines of the CSV file given to the loading pipeline
MaxRows == 3

\* entries of the data directory
MaxFiles == 3

\* itineraries declared in config.yaml
MaxItins == 2

\* ------------------------------------------------------------- Python str
\* printable ASCII in code-point order, from " " (32); "`" (96) is not used
AsciiLow ==
  << " ", "!", "\"", "#", "$", "%", "&", "'", "(", ")", "*", "+", ",", "-",
     ".", "/", "0", "1", "2", "3", "4", "5", "6", "7", "8", "9", ":", ";",
     "<", "=", ">", "?", "@", "A", "B", "C", "D", "E", "F", "G", "H", "I",
     "J", "K", "L", "M", "N", "O", "P", "Q", "R", "S", "T", "U", "V", "W",
     "X", "Y", "Z", "[", "\\", "]", "^", "_" >>

\* from "a" (97)
AsciiHigh ==
  << "a", "b", "c", "d", "e", "f", "g", "h", "i", "j", "k", "l", "m", "n",
     "o", "p", "q", "r", "s", "t", "u", "v", "w", "x", "y", "z", "{", "|",
     "}", "~" >>

Ord(c) ==
  IF \E k \in 1..Len(AsciiLow) : AsciiLow[k] = c
  THEN 31 + (CHOOSE k \in 1..Len(AsciiLow) : AsciiLow[k] = c)
  ELSE 96 + (CHOOSE k \in 1..Len(AsciiHigh) : AsciiHigh[k] = c)

Chr(n) == IF n < 96 THEN AsciiLow[n - 31] ELSE AsciiHigh[n - 96]

StrLT(a, b) ==
  \E k \in 1..(Len(a) + 1) :
     /\ \A j \in 1..(k - 1) : j <= Len(b) /\ a[j] = b[j]
     /\ k <= Len(b)
     /\ (k <= Len(a) => Ord(a[k]) < Ord(b[k]))

RECURSIVE IntToStr(_)
IntToStr(n) ==
  IF n < 0 THEN <<"-">> \o IntToStr(0 - n)
  ELSE IF n < 10 THEN <<Chr(48 + n)>>
  ELSE IntToStr(n \div 10) \o <<Chr(48 + (n % 10))>>

Pad2(n) == IF n < 10 THEN <<"0">> \o IntToStr(n) ELSE IntToStr(n)

\* s.endswith(suffix)
endswith(s, suffix) ==
  /\ Len(suffix) <= Len(s)
  /\ SubSeq(s, Len(s) - Len(suffix) + 1, Len(s)) = suffix

\* s.replace(old, new), old not empty
RECURSIVE replace(_, _, _)
replace(s, old, new) ==
  IF Len(s) < Len(old) THEN s
  ELSE IF SubSeq(s, 1, Len(old)) = old
       THEN new \o replace(SubSeq(s, Len(old) + 1, Len(s)), old, new)
       ELSE <<s[1]>> \o replace(Tail(s), old, new)

IsLower(c) == Ord(c) \in 97..122

IsUpper(c) == Ord(c) \in 65..90

\* s.title(): a letter that follows a letter is lowered, any other is raised
title(s) ==
  [k \in 1..Len(s) |->
     LET cased == k > 1 /\ (IsLower(s[k - 1]) \/ IsUpper(s[k - 1]))
     IN  IF cased /\ IsUpper(s[k]) THEN Chr(Ord(s[k]) + 32)
         ELSE IF ~cased /\ IsLower(s[k]) THEN Chr(Ord(s[k]) - 32)
         ELSE s[k]]

\* the rounding of a quotient to a float (53 significant bits, ties to
\* even), by long division: the bits left to produce after remainder r,
\* then the sign of (float - quotient)
RECURSIVE RoundAfter(_, _, _, _)
RoundAfter(r, d, bits, last) ==
  IF bits > 0
  THEN LET b == IF 2 * r >= d THEN 1 ELSE 0
       IN  RoundAfter(2 * r - b * d, d, bits - 1, b)
  ELSE IF 2 * r > d THEN 1
  ELSE IF r = 0 THEN 0
  ELSE IF 2 * r < d THEN -1
  ELSE IF last = 1 THEN 1 ELSE -1

\* a quotient below 1: the bits before its first 1 bit do not count
RECURSIVE SkipZeros(_, _)
SkipZeros(r, d) ==
  IF 2 * r >= d THEN RoundAfter(2 * r - d, d, 52, 1) ELSE SkipZeros(2 * r, d)

RECURSIVE BitLength(_)
BitLength(n) == IF n = 0 THEN 0 ELSE 1 + BitLength(n \div 2)

\* the sign of float(n / d) - n / d, for n >= 0: 0 when the float is exact
FloatError(n, d) ==
  IF n = 0 THEN 0
  ELSE IF n >= d
       THEN RoundAfter(n % d, d, 53 - BitLength(n \div d), (n \div d) % 2)
       ELSE SkipZeros(n % d, d)

\* f"{x:.1f}" of a non-negative float: its exact value is rounded to tenths,
\* ties to even; a quotient halfway between two tenths is a tie only when
\* the float holds it exactly, else the float lies on one side of it
Format1f(x) ==
  LET q == (10 * x.num) \div x.den
      r == (10 * x.num) % x.den
      e == FloatError(x.num, x.den)
      t == IF 2 * r > x.den THEN q + 1
           ELSE IF 2 * r < x.den THEN q
           ELSE IF e > 0 THEN q + 1
           ELSE IF e < 0 THEN q
           ELSE q + (q % 2)
  IN  IntToStr(t \div 10) \o <<".">> \o IntToStr(t % 10)

\* ---------------------------------------------------------- Python values
\* values whose type matters at run time carry it: the ids of config.yaml
PyInt(n) == [t |-> "int", v |-> n]

PyStr(s) == [t |-> "str", v |-> s]

\* outcome of a call: a returned value or a raised exception
Return(v) == [ok |-> TRUE, value |-> v]

Raise(e) == [ok |-> FALSE, exc |-> e]

\* a < b on values of one type
PyLT(a, b) == IF a.t = "int" THEN a.v < b.v ELSE StrLT(a.v, b.v)

\* insert a (item, key) pair behind the pairs whose key is not greater;
\* comparing an int with a str raises TypeError
RECURSIVE insort(_, _)
insort(sorted, x) ==
  IF sorted = <<>> THEN Return(<<x>>)
  ELSE LET last == sorted[Len(sorted)] IN
       IF last[2].t # x[2].t THEN Raise("TypeError")
       ELSE IF PyLT(x[2], last[2])
            THEN LET r == insort(SubSeq(sorted, 1, Len(sorted) - 1), x)
                 IN  IF r.ok THEN Return(Append(r.value, last)) ELSE r
            ELSE Return(Append(sorted, x))

\* list.sort(key=...): stable, ascending
RECURSIVE list_sort(_)
list_sort(pairs) ==
  IF pairs = <<>> THEN Return(<<>>)
  ELSE LET r == list_sort(SubSeq(pairs, 1, Len(pairs) - 1))
       IN  IF r.ok THEN insort(r.value, pairs[Len(pairs)]) ELSE r

\* ----------------------------------------------------------- Python float
RECURSIVE GCD(_, _)
GCD(a, b) == IF b = 0 THEN a ELSE GCD(b, a % b)

Frac(n, d) ==
  LET g == GCD(IF n < 0 THEN 0 - n ELSE n, d)
  IN  [num |-> n \div g, den |-> d \div g]

NaN == [num |-> 0, den |-> 0]

RECURSIVE SumSeq(_)
SumSeq(s) == IF s = <<>> THEN 0 ELSE s[1] + SumSeq(Tail(s))

\* --------------------------------------------------- timestamps and zones
\* days since 1970-01-01 of a proleptic Gregorian date
DaysFromCivil(y, m, d) ==
  LET yy  == IF m <= 2 THEN y - 1 ELSE y
      era == yy \div 400
      yoe == yy - era * 400
      mp  == (m + 9) % 12
      doy == (153 * mp + 2) \div 5 + d - 1
      doe == yoe * 365 + yoe \div 4 - yoe \div 100 + doy
  IN  era * 146097 + doe - 719468

\* pd.to_datetime(..., utc=True): the instant, in minutes since the epoch
to_datetime(s) ==
  DaysFromCivil(s[1], s[2], s[3]) * 1440 + s[4] * 60 + s[5]

\* the year of a day counted from 1970-01-01
YearOf(days) ==
  LET z   == days + 719468
      era == z \div 146097
      doe == z - era * 146097
      yoe == (doe - doe \div 1460 + doe \div 36524 - doe \div 146096) \div 365
      doy == doe - (365 * yoe + yoe \div 4 - yoe \div 100)
      mp  == (5 * doy + 2) \div 153
  IN  yoe + era * 400 + (IF mp >= 10 THEN 1 ELSE 0)

\* the first Sunday on or after a day (Monday = 0; 1970-01-01 was a Thursday)
SundayFrom(day) == day + ((6 - ((day + 3) % 7)) % 7)

\* US/Eastern in the tz database, from 1884 on: the UTC minute daylight
\* time starts in a year (02:00 EST) ...
DstStart(y) ==
  (IF y >= 2007 THEN SundayFrom(DaysFromCivil(y, 3, 8))
   ELSE IF y >= 1987 THEN SundayFrom(DaysFromCivil(y, 4, 1))
   ELSE IF y = 1975 THEN DaysFromCivil(y, 2, 23)
   ELSE IF y = 1974 THEN DaysFromCivil(y, 1, 6)
   ELSE IF y >= 1921 THEN SundayFrom(DaysFromCivil(y, 4, 24))
   ELSE SundayFrom(DaysFromCivil(y, 3, 25))) * 1440 + 7 * 60

\* ... and the UTC minute it ends (02:00 EDT)
DstEnd(y) ==
  (IF y >= 2007 THEN SundayFrom(DaysFromCivil(y, 11, 1))
   ELSE IF y >= 1955 THEN SundayFrom(DaysFromCivil(y, 10, 25))
   ELSE IF y >= 1921 THEN SundayFrom(DaysFromCivil(y, 9, 24))
   ELSE SundayFrom(DaysFromCivil(y, 10, 25))) * 1440 + 6 * 60

\* the UTC offset of US/Eastern at an instant, in minutes; no daylight time
\* before 1918, war time from 1942-02-09 to 1945-09-30
UtcOffset(t) ==
  LET y == YearOf(t \div 1440) IN
  IF y < 1918 THEN -300
  ELSE IF /\ DaysFromCivil(1942, 2, 9) * 1440 + 7 * 60 <= t
          /\ t < DaysFromCivil(1945, 9, 30) * 1440 + 6 * 60
       THEN -240
  ELSE IF DstStart(y) <= t /\ t < DstEnd(y) THEN -240
  ELSE -300

\* Series.dt.tz_convert("US/Eastern"): same instant, local wall clock
tz_convert(t) == [utc |-> t, local |-> t + UtcOffset(t)]

dt_minute(x) == x.local % 60

dt_hour(x) == (x.local \div 60) % 24

\* mutant of dt_weekday: the day of the UTC instant, not of the local clock
WeekdayOfUtc(x) == ((x.utc \div 1440) + 3) % 7

\* Monday = 0 ... Sunday = 6; 1970-01-01 was a Thursday
dt_weekday(x) == ((x.local \div 1440) + 3) % 7

DayNames ==
  << <<"M", "o", "n", "d", "a", "y">>,
     <<"T", "u", "e", "s", "d", "a", "y">>,
     <<"W", "e", "d", "n", "e", "s", "d", "a", "y">>,
     <<"T", "h", "u", "r", "s", "d", "a", "y">>,
     <<"F", "r", "i", "d", "a", "y">>,
     <<"S", "a", "t", "u", "r", "d", "a", "y">>,
     <<"S", "u", "n", "d", "a", "y">> >>

dt_day_name(x) == DayNames[dt_weekday(x) + 1]

\* strftime("%H:%M")
strftime(x) == Pad2(dt_hour(x)) \o <<":">> \o Pad2(dt_minute(x))

\* ------------------------------------------------------------------ pandas
\* pd.read_csv(file, names=["datetime", "commute_time"]): one row per line,
\* labelled by a RangeIndex starting at 0; with names given, a file without
\* lines gives a frame without rows
read_csv(lines) ==
  [k \in 1..Len(lines) |->
     [index |-> k - 1,
      datetime |-> lines[k].datetime,
      commute_time |-> lines[k].commute_time]]

\* the value a Series holds at an index label
Loc(series, label) ==
  series[CHOOSE k \in 1..Len(series) : series[k].index = label].value

\* mutant of AssignAligned: the series is assigned by position
AssignByPosition(df, series, col) ==
  [k \in 1..Len(df) |->
     [c \in (DOMAIN df[k]) \cup {col} |->
        IF c = col THEN series[k].value ELSE df[k][c]]]

\* df[col] = series: every row takes the series' value at its own label
AssignAligned(df, series, col) ==
  [k \in 1..Len(df) |->
     [c \in (DOMAIN df[k]) \cup {col} |->
        IF c = col THEN Loc(series, df[k].index) ELSE df[k][c]]]

\* mutant of BooleanIndex: the mask is ignored
KeepAllRows(df, mask) == df

\* df[mask]: the rows whose label the boolean Series marks, in order
BooleanIndex(df, mask) ==
  LET Keep(row) == Loc(mask, row.index) IN SelectSeq(df, Keep)

\* mutant of HalfHourMinutes: only the samples on the hour are kept
OnTheHourOnly == {0}

\* the minutes isin([0, 30]) keeps
HalfHourMinutes == {0, 30}

load_commute_time(lines) ==
  LET df0 == read_csv(lines)
      df_dt == [k \in 1..Len(df0) |->
                  [index |-> df0[k].index,
                   value |-> tz_convert(to_datetime(df0[k].datetime))]]
      isin == [k \in 1..Len(df_dt) |->
                 [index |-> df_dt[k].index,
                  value |-> dt_minute(df_dt[k].value) \in HalfHourMinutes]]
      df1 == BooleanIndex(df0, isin)
      hour_min == [k \in 1..Len(df_dt) |->
                     [index |-> df_dt[k].index,
                      value |-> strftime(df_dt[k].value)]]
      df2 == AssignAligned(df1, hour_min, "hour_min")
      df_weekday_nbr == [k \in 1..Len(df_dt) |->
                           [index |-> df_dt[k].index,
                            value |-> dt_weekday(df_dt[k].value) + 1]]
      df_weekday_name == [k \in 1..Len(df_dt) |->
                            [index |-> df_dt[k].index,
                             value |-> dt_day_name(df_dt[k].value)]]
      weekday == [k \in 1..Len(df_dt) |->
                    [index |-> df_dt[k].index,
                     value |-> IntToStr(df_weekday_nbr[k].value)
                               \o <<" ", "-", " ">>
                               \o df_weekday_name[k].value]]
  IN  AssignAligned(df2, weekday, "weekday")

\* group keys are tuples of str, ordered as tuples
KeyLT(a, b) ==
  \E k \in 1..Len(a) :
     /\ \A j \in 1..(k - 1) : a[j] = b[j]
     /\ StrLT(a[k], b[k])

RowKey(row, cols) == [j \in 1..Len(cols) |-> row[cols[j]]]

\* mutant of InsertKey: groups stay in order of first appearance (sort=False)
AppendKey(keys, key) ==
  IF \E k \in 1..Len(keys) : keys[k] = key THEN keys ELSE Append(keys, key)

\* insert a key into a sorted sequence of distinct keys
RECURSIVE InsertKey(_, _)
InsertKey(keys, key) ==
  IF keys = <<>> THEN <<key>>
  ELSE IF keys[Len(keys)] = key THEN keys
  ELSE IF KeyLT(keys[Len(keys)], key) THEN Append(keys, key)
  ELSE Append(InsertKey(SubSeq(keys, 1, Len(keys) - 1), key), keys[Len(keys)])

\* the distinct keys of the frame, sorted (groupby sorts its groups)
RECURSIVE GroupKeys(_, _)
GroupKeys(df, cols) ==
  IF df = <<>> THEN <<>>
  ELSE InsertKey(GroupKeys(SubSeq(df, 1, Len(df) - 1), cols),
                 RowKey(df[Len(df)], cols))

\* df.groupby(cols)["commute_time"]: per key, the values of its rows in order
groupby(df, cols) ==
  LET keys == GroupKeys(df, cols)
      InGroup(key) == LET Has(row) == RowKey(row, cols) = key
                      IN  SelectSeq(df, Has)
  IN  [g \in 1..Len(keys) |->
         [key |-> keys[g],
          values |-> [k \in 1..Len(InGroup(keys[g])) |->
                        InGroup(keys[g])[k].commute_time]]]

\* mutant of mean: the sum is divided by n - 1
MeanOffByOne(values) ==
  IF Len(values) < 2 THEN NaN ELSE Frac(SumSeq(values), Len(values) - 1)

mean(values) == Frac(SumSeq(values), Len(values))

\* mutant of std: the population formula (ddof = 0)
StdPopulation(values) ==
  LET n == Len(values)
      s1 == SumSeq(values)
      s2 == SumSeq([k \in 1..n |-> values[k] * values[k]])
  IN  [squared |-> Frac(n * s2 - s1 * s1, n * n)]

\* sample standard deviation (ddof = 1), held as its square; NaN for n < 2
std(values) ==
  LET n == Len(values)
      s1 == SumSeq(values)
      s2 == SumSeq([k \in 1..n |-> values[k] * values[k]])
  IN  IF n < 2 THEN NaN
      ELSE [squared |-> Frac(n * s2 - s1 * s1, n * (n - 1))]

get_average_commute_time(df) ==
  LET avg_time == groupby(df, <<"hour_min">>)
  IN  [g \in 1..Len(avg_time) |->
         [hour_min |-> avg_time[g].key[1],
          commute_time |-> mean(avg_time[g].values)]]

get_average_commute_time_daywise(df) ==
  LET avg_time_daywise == groupby(df, <<"weekday", "hour_min">>)
  IN  [g \in 1..Len(avg_time_daywise) |->
         [weekday |-> avg_time_daywise[g].key[1],
          hour_min |-> avg_time_daywise[g].key[2],
          commute_time |-> mean(avg_time_daywise[g].values)]]

\* adf["+/-"] = df.groupby("hour_min")["commute_time"].std().values:
\* an array is assigned by position
AverageChart(df) ==
  LET adf == get_average_commute_time(df)
      sd == groupby(df, <<"hour_min">>)
  IN  [g \in 1..Len(adf) |->
         [hour_min |-> adf[g].hour_min,
          commute_time |-> adf[g].commute_time,
          plus_minus |-> std(sd[g].values)]]

\* ------------------------------------------------------- dashboard helpers
CsvSuffix == <<".", "c", "s", "v">>

Unknown == <<"U", "n", "k", "n", "o", "w", "n">>

\* dict.get(key, default) on a dict held as a function
Get(dict, key, default) == IF key \in DOMAIN dict THEN dict[key] ELSE default

EmptyDict == [k \in {} |-> 0]

\* load_config(): the parsed config.yaml, or None when no file is found
load_config(yaml) ==
  IF yaml.exists THEN [none |-> FALSE, doc |-> yaml.doc] ELSE [none |-> TRUE]

ItineraryMeta(itin) ==
  [id   |-> Get(itin, "id", PyStr(<<"u", "n", "k", "n", "o", "w", "n">>)),
   name |-> Get(itin, "name",
                <<"U", "n", "n", "a", "m", "e", "d", " ",
                  "I", "t", "i", "n", "e", "r", "a", "r", "y">>),
   from |-> Get(itin, "from", Unknown),
   to   |-> Get(itin, "to", Unknown)]

\* the loop of get_itinerary_metadata: a later entry replaces an earlier one
RECURSIVE MapOutputFiles(_)
MapOutputFiles(itins) ==
  IF itins = <<>> THEN EmptyDict
  ELSE LET before == MapOutputFiles(SubSeq(itins, 1, Len(itins) - 1))
           itin == itins[Len(itins)]
           output_file == Get(itin, "output_file", <<>>)
       IN  [f \in (DOMAIN before) \cup {output_file} |->
              IF f = output_file THEN ItineraryMeta(itin) ELSE before[f]]

get_itinerary_metadata(yaml) ==
  LET config == load_config(yaml)
  IN  IF config.none \/ DOMAIN config.doc = {}
         \/ "itineraries" \notin DOMAIN config.doc
      THEN EmptyDict
      ELSE MapOutputFiles(config.doc.itineraries)

\* the names os.listdir("data") may return, kept when they end in ".csv";
\* the order of a directory listing is not specified
Listings(dir) ==
  IF ~dir.exists THEN {<<>>}
  ELSE LET names == {f \in DOMAIN dir.files : endswith(f, CsvSuffix)}
           n == Cardinality(names)
       IN  {l \in [1..n -> names] : \A a, b \in 1..n : a # b => l[a] # l[b]}

order_csv_files_by_config(csv_files, metadata) ==
  IF DOMAIN metadata = {}
  THEN LET r == list_sort([k \in 1..Len(csv_files) |->
                             <<csv_files[k], PyStr(csv_files[k])>>])
       IN  Return([k \in 1..Len(r.value) |-> r.value[k][1]])
  ELSE LET files_with_keys ==
             [k \in 1..Len(csv_files) |->
                LET csv_file == csv_files[k]
                    file_meta == Get(metadata, csv_file, EmptyDict)
                    itin_id == Get(file_meta, "id", PyStr(csv_file))
                IN  <<csv_file, itin_id>>]
           r == list_sort(files_with_keys)
       IN  IF r.ok THEN Return([k \in 1..Len(r.value) |-> r.value[k][1]])
           ELSE r

\* file_path = f"data/{csv_file}"
DataPrefix == <<"d", "a", "t", "a", "/">>

\* a datetime cell that pd.to_datetime rejects
Unparseable == <<>>

\* load_commute_time(file_path) as display_itinerary calls it: read_csv
\* raises for a path that is missing or may not be read, to_datetime for a
\* cell that is no date
open_and_load(dir, file_path) ==
  LET name == SubSeq(file_path, Len(DataPrefix) + 1, Len(file_path)) IN
  IF ~dir.exists \/ name \notin DOMAIN dir.files
  THEN Raise("FileNotFoundError")
  ELSE IF ~dir.files[name].readable THEN Raise("PermissionError")
  ELSE IF \E k \in 1..Len(dir.files[name].lines) :
             dir.files[name].lines[k].datetime = Unparseable
  THEN Raise("ValueError")
  ELSE Return(load_commute_time(dir.files[name].lines))

MinSeq(s) == CHOOSE x \in {s[k] : k \in 1..Len(s)} :
               \A k \in 1..Len(s) : x <= s[k]

MaxSeq(s) == CHOOSE x \in {s[k] : k \in 1..Len(s)} :
               \A k \in 1..Len(s) : x >= s[k]

Minutes(text) == text \o <<" ", "m", "i", "n">>

\* the part of display_itinerary that follows a load returning rows
Charts(df, commute_time) ==
  << [kind |-> "bar_chart", color |-> "+/-", data |-> AverageChart(df)],
     [kind |-> "metric", label |-> "Average",
      text |-> Minutes(Format1f(mean(commute_time)))],
     [kind |-> "metric", label |-> "Min",
      text |-> Minutes(Format1f(Frac(MinSeq(commute_time), 1)))],
     [kind |-> "metric", label |-> "Max",
      text |-> Minutes(Format1f(Frac(MaxSeq(commute_time), 1)))],
     [kind |-> "bar_chart", color |-> "weekday",
      data |-> get_average_commute_time_daywise(df)],
     [kind |-> "expander", records |-> Len(df), dataframe |-> df] >>

\* mutant of LoadAndDisplay: one handler for every exception
HandleAnyException(csv_file, loaded) ==
  IF ~loaded.ok
  THEN << [kind |-> "error", text |-> "Error loading data",
           exc |-> loaded.exc] >>
  ELSE IF Len(loaded.value) = 0
  THEN << [kind |-> "warning"] >>
  ELSE Charts(loaded.value,
              [k \in 1..Len(loaded.value) |-> loaded.value[k].commute_time])

\* the try block of display_itinerary and its two handlers
LoadAndDisplay(csv_file, loaded) ==
  IF ~loaded.ok
  THEN IF loaded.exc = "FileNotFoundError"
       THEN << [kind |-> "error", text |-> "Data file not found",
                file |-> csv_file] >>
       ELSE << [kind |-> "error", text |-> "Error loading data",
                exc |-> loaded.exc] >>
  ELSE IF Len(loaded.value) = 0
  THEN << [kind |-> "warning"] >>
  ELSE Charts(loaded.value,
              [k \in 1..Len(loaded.value) |-> loaded.value[k].commute_time])

\* the header of display_itinerary
Header(file_metadata) ==
  << [kind |-> "subheader", text |-> file_metadata.name],
     [kind |-> "caption", text |-> file_metadata.from],
     [kind |-> "caption", text |-> file_metadata.to],
     [kind |-> "divider"] >>

\* display_itinerary(csv_file, metadata): the elements it puts in its tab
display_itinerary(csv_file, metadata, dir) ==
  Header(Get(metadata, csv_file,
             [id   |-> PyStr(replace(csv_file, CsvSuffix, <<>>)),
              name |-> title(replace(replace(csv_file, CsvSuffix, <<>>),
                                     <<"-">>, <<" ">>)),
              from |-> Unknown,
              to   |-> Unknown]))
  \o LoadAndDisplay(csv_file, open_and_load(dir, DataPrefix \o csv_file))

\* ------------------------------------------------------------------ inputs
To1 == <<"t", "o", "-", "1", ".", "c", "s", "v">>

From1 == <<"f", "r", "o", "m", "-", "1", ".", "c", "s", "v">>

To2 == <<"t", "o", "-", "2", ".", "c", "s", "v">>

Notes == <<"n", "o", "t", "e", "s", ".", "t", "x", "t">>

Home == <<"H", "o", "m", "e">>

Work == <<"W", "o", "r", "k">>

Line(dt, ct) == [datetime |-> dt, commute_time |-> ct]

\* 2024-11-06 is a Wednesday; 13:00 UTC is 08:00 US/Eastern
EmptyFile == [readable |-> TRUE, lines |-> <<>>]

LockedFile == [readable |-> FALSE, lines |-> <<>>]

BadFile ==
  [readable |-> TRUE,
   lines |-> << Line(<<2024, 11, 6, 13, 0>>, 10), Line(Unparseable, 12) >>]

QuarterFile ==
  [readable |-> TRUE, lines |-> << Line(<<2024, 11, 6, 13, 15>>, 12) >>]

GoodFile ==
  [readable |-> TRUE,
   lines |-> << Line(<<2024, 11, 6, 13, 30>>, 5),
                Line(<<2024, 11, 6, 13, 0>>, 10),
                Line(<<2024, 11, 6, 13, 45>>, 11),
                Line(<<2024, 11, 13, 13, 0>>, 20) >>]

FilePool == {EmptyFile, LockedFile, BadFile, QuarterFile, GoodFile}

NamePool == {To1, From1, To2, Notes}

\* the data directory: CSV files of any content, and possibly a file that
\* is not a CSV file
Dirs ==
  {[exists |-> FALSE]} \cup
  {[exists |-> TRUE, files |-> fl] :
     fl \in {g \in UNION {[names -> FilePool] :
                            names \in {ns \in SUBSET NamePool :
                                         Cardinality(ns) <= MaxFiles}} :
               Notes \in DOMAIN g => g[Notes] = EmptyFile}}

ItinPool ==
  { [id |-> PyInt(1), name |-> Work, from |-> Home, to |-> Work,
     output_file |-> To1],
    [id |-> PyInt(2), name |-> Home, from |-> Work, to |-> Home,
     output_file |-> From1],
    [id |-> PyStr(<<"g">>), output_file |-> To2],
    [name |-> Work] }

RECURSIVE SeqsUpTo(_, _)
SeqsUpTo(S, n) ==
  IF n = 0 THEN {<<>>}
  ELSE LET shorter == SeqsUpTo(S, n - 1)
       IN  shorter \cup {Append(q, x) : q \in shorter, x \in S}

Yamls ==
  {[exists |-> FALSE],
   [exists |-> TRUE, doc |-> EmptyDict],
   [exists |-> TRUE, doc |-> [interval |-> 30]]} \cup
  {[exists |-> TRUE, doc |-> [itineraries |-> its]] :
     its \in SeqsUpTo(ItinPool, MaxItins)}

\* timestamps of the pipeline's input lines (UTC): a Wednesday morning on
\* and off the half hour, an evening that is already Thursday in UTC, a
\* summer night that is still Sunday in US/Eastern, the following Wednesday
StampPool ==
  { <<2024, 11, 6, 13, 0>>, <<2024, 11, 6, 13, 15>>, <<2024, 11, 6, 13, 30>>,
    <<2024, 11, 7, 2, 30>>, <<2024, 7, 1, 3, 0>>, <<2024, 11, 13, 13, 0>> }

DurationPool == {10, 20}

LinePool == {Line(dt, ct) : dt \in StampPool, ct \in DurationPool}

\* ------------------------------------------------------------------- state
VARIABLES
  yaml,        \* config.yaml as found on disk
  dir,         \* the data directory
  pc,          \* position of the main script
  metadata,    \* get_itinerary_metadata()
  csv_files,   \* the list of CSV files
  tab_labels,  \* labels given to st.tabs
  page,        \* elements rendered outside the tabs
  tabs,        \* elements rendered in each tab displayed so far
  exc,         \* the exception that ended the script, if any
  lines,       \* pipeline: lines of the CSV file
  stage,       \* pipeline: position
  df,          \* pipeline: load_commute_time's frame
  adf          \* pipeline: the averaged frame handed to the chart

vars == <<yaml, dir, pc, metadata, csv_files, tab_labels, page, tabs, exc,
          lines, stage, df, adf>>

scriptVars == <<yaml, dir, pc, metadata, csv_files, tab_labels, page, tabs,
                exc>>

pipelineVars == <<lines, stage, df, adf>>

ScriptIdle ==
  /\ yaml = [exists |-> FALSE]
  /\ dir = [exists |-> FALSE]
  /\ pc = "idle"
  /\ metadata = EmptyDict
  /\ csv_files = <<>>
  /\ tab_labels = <<>>
  /\ page = <<>>
  /\ tabs = <<>>
  /\ exc = "none"

PipelineIdle ==
  /\ lines = <<>>
  /\ stage = "idle"
  /\ df = <<>>
  /\ adf = <<>>

\* ------------------------------------------------------------- main script
Init ==
  /\ yaml \in Yamls
  /\ dir \in Dirs
  /\ pc = "metadata"
  /\ metadata = EmptyDict
  /\ csv_files = <<>>
  /\ tab_labels = <<>>
  /\ page = <<>>
  /\ tabs = <<>>
  /\ exc = "none"
  /\ PipelineIdle

LoadMetadata ==
  /\ pc = "metadata"
  /\ metadata' = get_itinerary_metadata(yaml)
  /\ page' = Append(page,
                    IF DOMAIN metadata' # {}
                    THEN [kind |-> "success",
                          itineraries |-> Cardinality(DOMAIN metadata')]
                    ELSE [kind |-> "warning"])
  /\ pc' = "list"
  /\ UNCHANGED <<yaml, dir, csv_files, tab_labels, tabs, exc, pipelineVars>>

GetAllCsvFiles ==
  /\ pc = "list"
  /\ csv_files' \in Listings(dir)
  /\ pc' = "order"
  /\ UNCHANGED <<yaml, dir, metadata, tab_labels, page, tabs, exc,
                 pipelineVars>>

OrderCsvFiles ==
  /\ pc = "order"
  /\ LET r == order_csv_files_by_config(csv_files, metadata)
     IN  IF r.ok
         THEN /\ csv_files' = r.value
              /\ pc' = "check"
              /\ exc' = exc
         ELSE /\ csv_files' = csv_files
              /\ pc' = "crashed"
              /\ exc' = r.exc
  /\ UNCHANGED <<yaml, dir, metadata, tab_labels, page, tabs, pipelineVars>>

StopNoFiles ==
  /\ pc = "check"
  /\ csv_files = <<>>
  /\ page' = Append(page, [kind |-> "error"])
  /\ pc' = "stopped"
  /\ UNCHANGED <<yaml, dir, metadata, csv_files, tab_labels, tabs, exc,
                 pipelineVars>>

CreateTabs ==
  /\ pc = "check"
  /\ csv_files # <<>>
  /\ tab_labels' =
       [k \in 1..Len(csv_files) |->
          LET csv_file == csv_files[k]
              file_meta == Get(metadata, csv_file, EmptyDict)
          IN  Get(file_meta, "name", replace(csv_file, CsvSuffix, <<>>))]
  /\ pc' = "tabs"
  /\ UNCHANGED <<yaml, dir, metadata, csv_files, page, tabs, exc,
                 pipelineVars>>

\* one iteration of the loop over the tabs
DisplayTab ==
  /\ pc = "tabs"
  /\ LET csv_file == csv_files[Len(tabs) + 1]
     IN  tabs' = Append(tabs, display_itinerary(csv_file, metadata, dir))
  /\ pc' = IF Len(tabs') = Len(csv_files) THEN "done" ELSE "tabs"
  /\ UNCHANGED <<yaml, dir, metadata, csv_files, tab_labels, page, exc,
                 pipelineVars>>

\* the collector's side: the file of the next tab disappears after it was
\* listed and before it is read
RemoveFile ==
  /\ pc = "tabs"
  /\ LET csv_file == csv_files[Len(tabs) + 1]
     IN  /\ csv_file \in DOMAIN dir.files
         /\ dir' = [dir EXCEPT !.files =
                      [f \in (DOMAIN dir.files) \ {csv_file} |->
                         dir.files[f]]]
  /\ UNCHANGED <<yaml, pc, metadata, csv_files, tab_labels, page, tabs, exc,
                 pipelineVars>>

Next ==
  \/ LoadMetadata
  \/ GetAllCsvFiles
  \/ OrderCsvFiles
  \/ StopNoFiles
  \/ CreateTabs
  \/ DisplayTab
  \/ RemoveFile

Spec == Init /\ [][Next]_vars

\* ------------------------------------------------- the loading pipeline
InitPipeline ==
  /\ lines \in SeqsUpTo(LinePool, MaxRows)
  /\ stage = "read"
  /\ df = <<>>
  /\ adf = <<>>
  /\ ScriptIdle

LoadCommuteTime ==
  /\ stage = "read"
  /\ df' = load_commute_time(lines)
  /\ stage' = "loaded"
  /\ UNCHANGED <<lines, adf, scriptVars>>

AverageCommuteTime ==
  /\ stage = "loaded"
  /\ adf' = AverageChart(df)
  /\ stage' = "charted"
  /\ UNCHANGED <<lines, df, scriptVars>>

NextPipeline ==
  \/ LoadCommuteTime
  \/ AverageCommuteTime

SpecPipeline == InitPipeline /\ [][NextPipeline]_vars

\* ==================================================== claims: the pipeline
\* what a line of the file says, read without the pipeline
UtcMinuteOf(line) == line.datetime[5]

OnHalfHour(line) == UtcMinuteOf(line) \in {0, 30}

KeptLines == {k \in 1..Len(lines) : OnHalfHour(lines[k])}

Loaded == stage \in {"loaded", "charted"}

\* the line a row of df was read from
LineOf(row) == lines[row.index + 1]

\* C1: load_commute_time returns exactly the input rows whose US/Eastern
\* minute is 0 or 30 (the zone's offsets are whole hours, so this is the
\* minute written in the file), each once and in input order; every other
\* row is dropped.
C1_HalfHourRowsOnly ==
  Loaded =>
    /\ {df[j].index + 1 : j \in 1..Len(df)} = KeptLines
    /\ \A j \in 1..Len(df) :
         /\ df[j].datetime = LineOf(df[j]).datetime
         /\ df[j].commute_time = LineOf(df[j]).commute_time
    /\ \A j, k \in 1..Len(df) : j < k => df[j].index < df[k].index

\* rows at 08:00, 08:15 and 08:30 US/Eastern were loaded: two are kept
C1_Witness ==
  /\ stage = "loaded"
  /\ Len(lines) = 3
  /\ lines[1].datetime = <<2024, 11, 6, 13, 0>>
  /\ lines[2].datetime = <<2024, 11, 6, 13, 15>>
  /\ lines[3].datetime = <<2024, 11, 6, 13, 30>>
  /\ Len(df) = 2
  /\ df[1].index = 0
  /\ df[2].index = 2

\* C2 as stated: load_commute_time returns as many rows as the file has.
C2_OneSamplePerRow == Loaded => Len(df) = Len(lines)

\* C2 amended: load_commute_time returns one row per input row that is on
\* the half hour; it returns as many rows as the file has exactly when every
\* row of the file is on the half hour, and fewer otherwise.
C2_OneSamplePerHalfHourRow ==
  Loaded =>
    /\ Len(df) = Cardinality(KeptLines)
    /\ Len(df) <= Len(lines)
    /\ (Len(df) = Len(lines)) <=> (\A k \in 1..Len(lines) : OnHalfHour(lines[k]))

\* a file of three rows, two of them off the half hour, was loaded
C2_Witness ==
  /\ stage = "loaded"
  /\ Len(lines) = 3
  /\ Len(df) = 1

\* the durations of the samples of df that carry a time of day
DurationsAt(hm) ==
  LET At(row) == row.hour_min = hm
      rows == SelectSeq(df, At)
  IN  [k \in 1..Len(rows) |-> rows[k].commute_time]

\* C5: get_average_commute_time returns exactly one row per distinct
\* hour_min of the samples, none for an absent value, and each row's
\* commute_time is the sum of the durations of the samples with that
\* hour_min divided by their number.
C5_OneMeanPerTimeOfDay ==
  stage = "charted" =>
    /\ {adf[g].hour_min : g \in 1..Len(adf)}
         = {df[j].hour_min : j \in 1..Len(df)}
    /\ \A g, h \in 1..Len(adf) : adf[g].hour_min = adf[h].hour_min => g = h
    /\ \A g \in 1..Len(adf) :
         LET d == DurationsAt(adf[g].hour_min) IN
         /\ Len(d) > 0
         /\ adf[g].commute_time.den > 0
         /\ adf[g].commute_time.num * Len(d)
              = SumSeq(d) * adf[g].commute_time.den

\* two groups, one of them averaging two different durations to a value
\* that is neither of them
C5_Witness ==
  /\ stage = "charted"
  /\ Len(adf) = 2
  /\ Len(df) = 3
  /\ \E g \in 1..2 : adf[g].commute_time = [num |-> 15, den |-> 1]

Perms(n) == {q \in [1..n -> 1..n] : \A a, b \in 1..n : a # b => q[a] # q[b]}

\* C6: the rows of get_average_commute_time are strictly ascending by
\* hour_min, and every permutation of the same samples gives the same rows.
C6_SortedWhateverTheOrder ==
  stage = "charted" =>
    /\ \A g \in 1..(Len(adf) - 1) : StrLT(adf[g].hour_min, adf[g + 1].hour_min)
    /\ \A q \in Perms(Len(df)) :
         get_average_commute_time([k \in 1..Len(df) |-> df[q[k]]])
           = [g \in 1..Len(adf) |->
                [hour_min |-> adf[g].hour_min,
                 commute_time |-> adf[g].commute_time]]

\* the samples came in descending time of day and were charted ascending
C6_Witness ==
  /\ stage = "charted"
  /\ Len(df) = 3
  /\ StrLT(df[3].hour_min, df[2].hour_min)
  /\ StrLT(df[2].hour_min, df[1].hour_min)
  /\ Len(adf) = 3

\* the weekday (US/Eastern) of the timestamps the pipeline is given, from
\* the calendar: 1 = Monday
CalendarWeekday(dt) ==
  IF dt = <<2024, 7, 1, 3, 0>> THEN 7 ELSE 3

ThreeWednesday ==
  <<"3", " ", "-", " ", "W", "e", "d", "n", "e", "s", "d", "a", "y">>

\* C7: every sample's weekday label is "{n} - {WeekdayName}", n in 1..7
\* with 1 = Monday, n and the name being the day of the sample's own
\* timestamp in US/Eastern; a Wednesday reads "3 - Wednesday".
C7_WeekdayLabel ==
  Loaded =>
    \A j \in 1..Len(df) :
      LET n == CalendarWeekday(LineOf(df[j]).datetime) IN
      /\ df[j].weekday = IntToStr(n) \o <<" ", "-", " ">> \o DayNames[n]
      /\ n = 3 => df[j].weekday = ThreeWednesday

\* a sample taken on Thursday 02:30 UTC, Wednesday evening in US/Eastern,
\* and one taken on Monday 03:00 UTC, Sunday night in US/Eastern
C7_Witness ==
  /\ stage = "loaded"
  /\ \E j \in 1..Len(df) :
       /\ df[j].datetime = <<2024, 11, 7, 2, 30>>
       /\ df[j].weekday = ThreeWednesday
  /\ \E j \in 1..Len(df) :
       /\ df[j].datetime = <<2024, 7, 1, 3, 0>>
       /\ df[j].weekday = <<"7", " ", "-", " ", "S", "u", "n", "d", "a", "y">>

\* the sum of the squared deviations from the mean, times n * n
SquaredDeviations(d) ==
  SumSeq([k \in 1..Len(d) |->
            (Len(d) * d[k] - SumSeq(d)) * (Len(d) * d[k] - SumSeq(d))])

\* C9: the "+/-" value of the i-th aggregate row is the sample standard
\* deviation (n - 1 denominator) of the group of that row's hour_min, and
\* it is NaN for a group of one sample; the chart data is produced all the
\* same.
C9_PlusMinusIsGroupStd ==
  stage = "charted" =>
    /\ Len(adf) = Cardinality({df[j].hour_min : j \in 1..Len(df)})
    /\ \A g \in 1..Len(adf) :
         LET d == DurationsAt(adf[g].hour_min)
             n == Len(d)
         IN  IF n = 1 THEN adf[g].plus_minus = NaN
             ELSE /\ adf[g].plus_minus # NaN
                  /\ adf[g].plus_minus.squared.den > 0
                  /\ adf[g].plus_minus.squared.num * (n * n * (n - 1))
                       = SquaredDeviations(d) * adf[g].plus_minus.squared.den

\* durations 10 and 20 at one time of day (standard deviation squared 50)
\* next to a time of day with a single sample
C9_Witness ==
  /\ stage = "charted"
  /\ Len(adf) = 2
  /\ \E g, h \in 1..2 :
       /\ adf[g].plus_minus = [squared |-> [num |-> 50, den |-> 1]]
       /\ adf[h].plus_minus = NaN
       /\ adf[h].commute_time = [num |-> 10, den |-> 1]

\* the US/Eastern clock time of the timestamps the pipeline is given
ClockOf(dt) ==
  IF dt = <<2024, 11, 6, 13, 0>> THEN <<"0", "8", ":", "0", "0">>
  ELSE IF dt = <<2024, 11, 6, 13, 15>> THEN <<"0", "8", ":", "1", "5">>
  ELSE IF dt = <<2024, 11, 6, 13, 30>> THEN <<"0", "8", ":", "3", "0">>
  ELSE IF dt = <<2024, 11, 7, 2, 30>> THEN <<"2", "1", ":", "3", "0">>
  ELSE IF dt = <<2024, 7, 1, 3, 0>> THEN <<"2", "3", ":", "0", "0">>
  ELSE <<"0", "8", ":", "0", "0">>

Digits == {"0", "1", "2", "3", "4", "5", "6", "7", "8", "9"}

\* C10: every sample's hour_min is a 5-character "HH:MM" string, HH in
\* 00..23 and MM in 00..59, it is the US/Eastern clock time of the sample's
\* own timestamp, and its MM is 00 or 30.
C10_HourMinOfOwnTimestamp ==
  Loaded =>
    \A j \in 1..Len(df) :
      LET hm == df[j].hour_min IN
      /\ Len(hm) = 5
      /\ hm[3] = ":"
      /\ \A k \in {1, 2, 4, 5} : hm[k] \in Digits
      /\ StrLT(hm, <<"2", "4">>)
      /\ StrLT(SubSeq(hm, 4, 5), <<"6", "0">>)
      /\ hm = ClockOf(LineOf(df[j]).datetime)
      /\ SubSeq(hm, 4, 5) \in {<<"0", "0">>, <<"3", "0">>}

\* a dropped row precedes a kept one: the kept row's label is its own
C10_Witness ==
  /\ stage = "loaded"
  /\ Len(lines) = 2
  /\ lines[1].datetime = <<2024, 11, 6, 13, 15>>
  /\ lines[2].datetime = <<2024, 11, 7, 2, 30>>
  /\ Len(df) = 1
  /\ df[1].hour_min = <<"2", "1", ":", "3", "0">>

\* ================================================= claims: the main script
\* the file the tab loop is about to display
NextFile == csv_files[Len(tabs) + 1]

Missing(f) == f \notin DOMAIN dir.files

EmptySource(f) ==
  /\ f \in DOMAIN dir.files
  /\ dir.files[f].readable
  /\ dir.files[f].lines = <<>>

NoAggregateRows(tab) ==
  \A k \in 1..Len(tab) : tab[k].kind \notin {"bar_chart", "expander", "metric"}

LastOf(tab) == tab[Len(tab)]

\* C3 as stated: on a missing or empty source load_commute_time returns an
\* empty sample set rather than raising, and display_itinerary renders no
\* aggregate rows.
C3_MissingOrEmptyLoadsEmpty ==
  (pc = "tabs" /\ (Missing(NextFile) \/ EmptySource(NextFile))) =>
    /\ open_and_load(dir, DataPrefix \o NextFile) = Return(<<>>)
    /\ NoAggregateRows(display_itinerary(NextFile, metadata, dir))

\* C3 amended: on an empty source load_commute_time returns an empty sample
\* set and display_itinerary shows a warning; on a missing source
\* load_commute_time raises FileNotFoundError, which display_itinerary
\* catches and shows as a "Data file not found" banner. In both cases
\* display_itinerary completes, renders no aggregate rows, and the script
\* goes on.
C3_MissingOrEmptyShowsNoRows ==
  [][(pc = "tabs" /\ tabs' # tabs) =>
       LET f == NextFile
           tab == tabs'[Len(tabs')]
           loaded == open_and_load(dir, DataPrefix \o f)
       IN  /\ Missing(f) =>
                /\ loaded = Raise("FileNotFoundError")
                /\ LastOf(tab) = [kind |-> "error",
                                  text |-> "Data file not found",
                                  file |-> f]
           /\ EmptySource(f) =>
                /\ loaded = Return(<<>>)
                /\ LastOf(tab) = [kind |-> "warning"]
           /\ (Missing(f) \/ EmptySource(f)) =>
                /\ NoAggregateRows(tab)
                /\ Len(tabs') = Len(tabs) + 1
                /\ exc' = "none"
                /\ pc' = IF Len(tabs') = Len(csv_files) THEN "done" ELSE "tabs"
  ]_vars

\* one tab shows the banner of a file that disappeared, another the warning
\* of a file that is empty
C3_Witness ==
  \E j, k \in 1..Len(tabs) :
    /\ LastOf(tabs[j]).kind = "error"
    /\ LastOf(tabs[j]).text = "Data file not found"
    /\ LastOf(tabs[k]) = [kind |-> "warning"]
    /\ csv_files[k] \in DOMAIN dir.files
    /\ dir.files[csv_files[k]] = EmptyFile

\* C4: whatever the CSV files and the config, the script reaches the tab
\* loop and displays every CSV file; no exception ends it.
C4_NoErrorIsFatal ==
  /\ exc = "none"
  /\ pc # "crashed"
  /\ pc = "done" => Len(tabs) = Len(csv_files)

\* the sort key order_csv_files_by_config gives a file
SortKey(f) ==
  IF f \in DOMAIN metadata THEN metadata[f].id ELSE PyStr(f)

\* C8: order_csv_files_by_config returns, for every file list and metadata,
\* a permutation of the list: ascending by file name when the metadata is
\* empty, else non-decreasing by sort key with equal keys in input order.
C8_OrderedPermutation ==
  pc = "order" =>
    LET r == order_csv_files_by_config(csv_files, metadata)
        Pos(f) == CHOOSE k \in 1..Len(csv_files) : csv_files[k] = f
    IN  /\ r.ok
        /\ Len(r.value) = Len(csv_files)
        /\ {r.value[k] : k \in 1..Len(r.value)}
             = {csv_files[k] : k \in 1..Len(csv_files)}
        /\ DOMAIN metadata = {} =>
             \A a \in 1..(Len(r.value) - 1) : StrLT(r.value[a], r.value[a + 1])
        /\ DOMAIN metadata # {} =>
             \A a, b \in 1..Len(r.value) :
               a < b =>
                 /\ ~PyLT(SortKey(r.value[b]), SortKey(r.value[a]))
                 /\ SortKey(r.value[a]) = SortKey(r.value[b])
                      => Pos(r.value[a]) < Pos(r.value[b])

====
